---- MODULE Spec2Model ----
(***************************************************************************)
(* Model of recrawl.py (Total reCrawl Regex Crawler).                      *)
(*                                                                         *)
(* A URL is a record [host, path]; the path is the sequence of its         *)
(* segments, the last one being the file name ("" for a directory), so     *)
(* https://a.com/ is [host |-> "a.com", path |-> <<"">>] and               *)
(* https://a.com/d/p is [host |-> "a.com", path |-> <<"d", "p">>].         *)
(* A page (the html string) is a record [text, hrefs]: the text is a       *)
(* sequence of one-character strings, hrefs the href attributes of its     *)
(* anchors in document order.  The empty string is EmptyHtml.              *)
(* The call stack of crawl() is the sequence stack, innermost call last.   *)
(* ex holds the text given to an extractor called on its own, and what it   *)
(* returned.                                                               *)
(***************************************************************************)
EXTENDS Integers, Sequences, FiniteSets, TLC

VARIABLES visited_urls, stack, log, args, web, main_pc, ex

vars == <<visited_urls, stack, log, args, web, main_pc, ex>>

(* Largest --depth the model explores. *)
MaxDepth == 3

(* Largest number of pieces a text given to an extractor is made of. *)
MaxTokens == 3
(* how many times the process calls crawl() from the top *)
MaxRuns == 2

None == <<>>

----------------------------------------------------------------------------
(* URLs and references *)

U(h, p) == [host |-> h, path |-> p]

Abs(h, p) == [kind |-> "abs", host |-> h, path |-> p]
Root(p) == [kind |-> "root", host |-> "", path |-> p]
Rel(p) == [kind |-> "rel", host |-> "", path |-> p]

Dir(p) == SubSeq(p, 1, Len(p) - 1)

(* urllib.parse.urljoin: an absolute reference replaces the base, a       *)
(* reference starting with "/" keeps the base's host, a relative one is    *)
(* merged with the base path minus its last segment.                       *)
urljoin(base, href) ==
  CASE href.kind = "abs" -> U(href.host, href.path)
    [] href.kind = "root" -> U(base.host, href.path)
    [] OTHER -> U(base.host, Dir(base.path) \o href.path)

(* urllib.parse.urlparse(url).netloc *)
netloc(url) == url.host

Range(s) == {s[i] : i \in 1..Len(s)}

----------------------------------------------------------------------------
(* Characters *)

UpperCase == <<"A","B","C","D","E","F","G","H","I","J","K","L","M",
               "N","O","P","Q","R","S","T","U","V","W","X","Y","Z">>
LowerCase == <<"a","b","c","d","e","f","g","h","i","j","k","l","m",
               "n","o","p","q","r","s","t","u","v","w","x","y","z">>
Digit == {"0","1","2","3","4","5","6","7","8","9"}
Alpha == Range(UpperCase) \cup Range(LowerCase)

(* re.IGNORECASE compares the lower-cased characters *)
Lower(c) ==
  IF c \in Range(UpperCase)
  THEN LowerCase[CHOOSE i \in 1..Len(UpperCase) : UpperCase[i] = c]
  ELSE c

----------------------------------------------------------------------------
(* find_strings: re.findall(search_string, html, re.IGNORECASE) for a      *)
(* pattern of literal characters: the non-overlapping matches, leftmost    *)
(* first, as they are written in the text.                                 *)

MatchesAt(text, pat, i) ==
  /\ i + Len(pat) - 1 <= Len(text)
  /\ \A k \in 1..Len(pat) : Lower(text[i + k - 1]) = Lower(pat[k])

RECURSIVE FindFrom(_, _, _)
FindFrom(text, pat, i) ==
  IF i > Len(text) THEN <<>>
  ELSE IF MatchesAt(text, pat, i)
       THEN <<SubSeq(text, i, i + Len(pat) - 1)>> \o FindFrom(text, pat, i + Len(pat))
       ELSE FindFrom(text, pat, i + 1)

find_strings(html, search_string) == FindFrom(html.text, search_string, 1)

----------------------------------------------------------------------------
(* Shared helpers of the two pattern scanners *)

WhiteSpace == {" ", "\t", "\n"}
(* [\s.-] *)
Separator == WhiteSpace \cup {".", "-"}

IsDigits(s, i, n) ==
  /\ i + n - 1 <= Len(s)
  /\ \A k \in i..(i + n - 1) : s[k] \in Digit

Has(s, i, set) == i <= Len(s) /\ s[i] \in set

(* x? for a one-character x, greedy: the positions after it, in the order *)
(* the regex engine tries them (taken first, then skipped).                *)
OptAt(s, i, set) == IF Has(s, i, set) THEN <<i + 1, i>> ELSE <<i>>

(* the first index >= i whose character is outside set *)
RECURSIVE RunEnd(_, _, _)
RunEnd(s, i, set) ==
  IF i <= Len(s) /\ s[i] \in set THEN RunEnd(s, i + 1, set) ELSE i

(* re.sub(r'\D', '', s) *)
StripNonDigits(s) == SelectSeq(s, LAMBDA c : c \in Digit)

----------------------------------------------------------------------------
(* find_phone_numbers.  Each G*Ends gives, for a group starting at i, the  *)
(* positions just after the group in the order the backtracking engine     *)
(* tries them; an optional group ends with "absent" (position i).          *)

(* \d{n}[\s.-]? at p *)
G1Digits(s, p, n) ==
  IF IsDigits(s, p, n) THEN OptAt(s, p + n, Separator) ELSE <<>>

(* \d{1,3}[\s.-]? at p, the longest run of digits first *)
G1From(s, p) == G1Digits(s, p, 3) \o G1Digits(s, p, 2) \o G1Digits(s, p, 1)

(* (\+?\d{1,3}[\s.-]?)? *)
G1Ends(s, i) ==
  (IF Has(s, i, {"+"}) THEN G1From(s, i + 1) ELSE <<>>)
  \o G1From(s, i) \o <<i>>

(* \)?[\s.-]? at q *)
G2Close(s, q) ==
  (IF Has(s, q, {")"}) THEN OptAt(s, q + 1, Separator) ELSE <<>>)
  \o OptAt(s, q, Separator)

(* \d{3}\)?[\s.-]? at p *)
G2From(s, p) == IF IsDigits(s, p, 3) THEN G2Close(s, p + 3) ELSE <<>>

(* (\(?\d{3}\)?[\s.-]?)? *)
G2Ends(s, i) ==
  (IF Has(s, i, {"("}) THEN G2From(s, i + 1) ELSE <<>>)
  \o G2From(s, i) \o <<i>>

(* \d{4} at q *)
G3Tail(s, q) == IF IsDigits(s, q, 4) THEN <<q + 4>> ELSE <<>>

(* (\d{3}[\s.-]?\d{4}|\d{7}|\d{10,11}) *)
G3Ends(s, i) ==
  (IF IsDigits(s, i, 3)
   THEN (IF Has(s, i + 3, Separator) THEN G3Tail(s, i + 4) ELSE <<>>)
        \o G3Tail(s, i + 3)
   ELSE <<>>)
  \o (IF IsDigits(s, i, 7) THEN <<i + 7>> ELSE <<>>)
  \o (IF IsDigits(s, i, 11) THEN <<i + 11>> ELSE <<>>)
  \o (IF IsDigits(s, i, 10) THEN <<i + 10>> ELSE <<>>)

(* The end of the first match of group 3 after one of the ends of group 2, *)
(* 0 if there is none.                                                     *)
RECURSIVE FirstG3(_, _)
FirstG3(s, ends2) ==
  IF ends2 = <<>> THEN 0
  ELSE LET g == G3Ends(s, Head(ends2))
       IN  IF g # <<>> THEN Head(g) ELSE FirstG3(s, Tail(ends2))

RECURSIVE FirstG2(_, _)
FirstG2(s, ends1) ==
  IF ends1 = <<>> THEN 0
  ELSE LET e == FirstG3(s, G2Ends(s, Head(ends1)))
       IN  IF e # 0 THEN e ELSE FirstG2(s, Tail(ends1))

(* The position just after the match the engine finds at i, 0 if none. *)
PhoneMatchEnd(s, i) == FirstG2(s, G1Ends(s, i))

(* pattern.findall(html): "".join(match) is the matched text, since the    *)
(* three groups are adjacent and cover the whole match.                    *)
RECURSIVE PhoneMatches(_, _)
PhoneMatches(s, i) ==
  IF i > Len(s) THEN <<>>
  ELSE LET e == PhoneMatchEnd(s, i)
       IN  IF e = 0 THEN PhoneMatches(s, i + 1)
           ELSE <<SubSeq(s, i, e - 1)>> \o PhoneMatches(s, e)

(* find_phone_numbers without the test of line 81 *)
find_phone_numbers_NoFilter(html) == Range(PhoneMatches(html.text, 1))

find_phone_numbers(html) ==
  {m \in Range(PhoneMatches(html.text, 1)) : Len(StripNonDigits(m)) \in {10, 11}}

----------------------------------------------------------------------------
(* find_email_addresses *)

(* [A-Za-z0-9._%+-] *)
LocalChar == Alpha \cup Digit \cup {".", "_", "%", "+", "-"}
(* [A-Za-z0-9.-] *)
DomainChar == Alpha \cup Digit \cup {".", "-"}
(* [A-Z|a-z] *)
TldChar == Alpha \cup {"|"}
(* \w *)
WordChar == Alpha \cup Digit \cup {"_"}

IsWord(s, i) == i >= 1 /\ i <= Len(s) /\ s[i] \in WordChar

(* \b between positions i - 1 and i *)
WordBoundary(s, i) == IsWord(s, i - 1) # IsWord(s, i)

(* The <<r, e>> for which local@domain\.tld matches at i with the dot at r *)
(* and the match ending just before e.                                     *)
EmailEnds(s, i) ==
  LET p == RunEnd(s, i, LocalChar)
  IN  IF ~(WordBoundary(s, i) /\ p > i /\ p <= Len(s) /\ s[p] = "@") THEN {}
      ELSE {re \in ((p + 2)..Len(s)) \X ((p + 5)..(Len(s) + 1)) :
              /\ re[1] < RunEnd(s, p + 1, DomainChar)
              /\ s[re[1]] = "."
              /\ re[2] >= re[1] + 3
              /\ re[2] <= RunEnd(s, re[1] + 1, TldChar)
              /\ WordBoundary(s, re[2])}

(* Greedy: the longest domain first, then the longest tld. *)
EmailMatchEnd(s, i) ==
  LET C == EmailEnds(s, i)
  IN  IF C = {} THEN 0
      ELSE LET r == CHOOSE x \in {c[1] : c \in C} : \A c \in C : c[1] <= x
           IN  CHOOSE e \in {c[2] : c \in C} :
                 /\ <<r, e>> \in C
                 /\ \A c \in C : c[1] = r => c[2] <= e

RECURSIVE EmailMatches(_, _)
EmailMatches(s, i) ==
  IF i > Len(s) THEN <<>>
  ELSE LET e == EmailMatchEnd(s, i)
       IN  IF e = 0 THEN EmailMatches(s, i + 1)
           ELSE <<SubSeq(s, i, e - 1)>> \o EmailMatches(s, e)

(* re.match(r'^[a-zA-Z0-9._%+-]+@[a-zA-Z0-9.-]+\.[a-zA-Z]{2,}$', email) *)
ValidEmail(email) ==
  \E p \in 2..Len(email) : \E r \in (p + 2)..Len(email) :
    /\ email[p] = "@"
    /\ \A k \in 1..(p - 1) : email[k] \in LocalChar
    /\ \A k \in (p + 1)..(r - 1) : email[k] \in DomainChar
    /\ email[r] = "."
    /\ Len(email) >= r + 2
    /\ \A k \in (r + 1)..Len(email) : email[k] \in Alpha

(* find_email_addresses without the test of line 102 *)
find_email_addresses_NoValidation(html) == Range(EmailMatches(html.text, 1))

find_email_addresses(html) ==
  {m \in Range(EmailMatches(html.text, 1)) : ValidEmail(m)}

----------------------------------------------------------------------------
(* The web the crawler runs against *)

EmptyHtml == [text |-> <<>>, hrefs |-> <<>>]

Home == U("a.com", <<"">>)
P1 == U("a.com", <<"p1">>)
P2 == U("a.com", <<"p2">>)
P3 == U("a.com", <<"p3">>)
DP == U("a.com", <<"d", "p">>)
DX == U("a.com", <<"d", "x">>)
X == U("a.com", <<"x">>)
BX == U("b.com", <<"x">>)

TextPhone == <<"T","e","l"," ","5","5","5","1","2","3","4","5","6","7">>
TextEmail == <<"t","e","l"," ","u","@","e",".","c","o","m"," ","T","E","L">>
TextPlain == <<"x">>
TextTel == <<"t","e","l">>

(* Absolute links, a duplicate link, a cycle, a self-link and a link to    *)
(* another host.                                                           *)
WebA ==
  (Home :> [text |-> TextPhone,
            hrefs |-> <<Abs("a.com", <<"p1">>), Abs("a.com", <<"p1">>),
                        Abs("a.com", <<"p2">>)>>])
  @@ (P1 :> [text |-> TextEmail,
             hrefs |-> <<Abs("a.com", <<"">>), Abs("a.com", <<"p3">>)>>])
  @@ (P2 :> [text |-> TextPlain,
             hrefs |-> <<Abs("a.com", <<"p2">>), Abs("b.com", <<"x">>),
                         Abs("a.com", <<"p1">>)>>])
  @@ (P3 :> [text |-> TextTel, hrefs |-> <<>>])
  @@ (BX :> [text |-> TextTel, hrefs |-> <<Abs("a.com", <<"p3">>)>>])

(* Relative links below a directory, a page with an empty body. *)
WebB ==
  (Home :> [text |-> TextPlain,
            hrefs |-> <<Rel(<<"d", "p">>), Abs("b.com", <<"x">>)>>])
  @@ (DP :> [text |-> TextTel, hrefs |-> <<Rel(<<"x">>), Root(<<"p1">>)>>])
  @@ (DX :> [text |-> TextEmail, hrefs |-> <<>>])
  @@ (X :> [text |-> TextPhone, hrefs |-> <<Rel(<<"d", "p">>)>>])
  @@ (P1 :> EmptyHtml)
  @@ (BX :> [text |-> TextTel, hrefs |-> <<Root(<<"p1">>), Rel(<<"y">>)>>])

Webs == {WebA, WebB}

(* The extractors are pure functions of the page: their results on the     *)
(* pages of the webs above are tabulated, once.                            *)
Pages == UNION {{w[u] : u \in DOMAIN w} : w \in Webs}
PhoneNumbersOn == [html \in Pages |-> find_phone_numbers(html)]
EmailAddressesOn == [html \in Pages |-> find_email_addresses(html)]
Seeds == {Home, BX}
Patterns == {None, <<"t", "e", "l">>}

----------------------------------------------------------------------------
(* get_links *)

(* get_links without the test of line 123 *)
get_links_NoFilter(html, base_url, follow_external) ==
  {urljoin(base_url, href) : href \in Range(html.hrefs)}

get_links(html, base_url, follow_external) ==
  LET base_domain == netloc(base_url)
  IN  {urljoin(base_url, href) : href \in
        {h \in Range(html.hrefs) :
           follow_external \/ netloc(urljoin(base_url, h)) = base_domain}}

----------------------------------------------------------------------------------------------------------------------------------------
(* The call stack and the trace of the run *)

(* A frame of crawl(): its arguments, where it stands, the page it got and *)
(* the links the for loop has not yet taken.  id is the position in log of *)
(* the call that made it, parent the id of its caller (0 for __main__).    *)
Frame(url, base_url, depth, search_string, id, parent) ==
  [url |-> url, base_url |-> base_url, depth |-> depth,
   search_string |-> search_string, pc |-> "check", html |-> EmptyHtml,
   links |-> {}, link |-> url, id |-> id, parent |-> parent]

Top == stack[Len(stack)]

SetTop(f) == [stack EXCEPT ![Len(stack)] = f]

(* An entry of log: what the task on top of the stack printed or did.     *)
(* hops is the number of calls between __main__'s call and the task.      *)
Event(type, url, kind, values) ==
  [type |-> type, url |-> url, depth |-> Top.depth, hops |-> Len(stack) - 1,
   task |-> Top.id, parent |-> Top.parent, kind |-> kind, values |-> values]

(* The entry of a call of crawl(): it describes the task that starts. *)
CallEvent(url, depth, hops, parent) ==
  [type |-> "Call", url |-> url, depth |-> depth, hops |-> hops,
   task |-> Len(log) + 1, parent |-> parent, kind |-> "", values |-> <<>>]

(* crawl() returns: its frame is dropped and the caller goes on with the  *)
(* for loop of line 168.                                                   *)
Popped ==
  LET rest == SubSeq(stack, 1, Len(stack) - 1)
  IN  IF rest = <<>> THEN rest
      ELSE [rest EXCEPT ![Len(rest)].pc = "loop"]

Return ==
  /\ stack' = Popped
  /\ main_pc' = IF Len(stack) = 1 THEN "done" ELSE main_pc

(* list(a_set): the elements in some order *)
ListsOf(S) == {l \in [1..Cardinality(S) -> S] : Range(l) = S}

----------------------------------------------------------------------------
(* Operations *)

Init ==
  /\ visited_urls = {}
  /\ stack = <<>>
  /\ log = <<>>
  /\ web \in Webs
  /\ args \in [starting_url : Seeds, search_string : Patterns,
               depth : 0..MaxDepth, follow_external : BOOLEAN,
               phone : BOOLEAN, email : BOOLEAN]
  /\ main_pc = "start"
  /\ ex = [pc |-> "idle", input |-> <<>>, output |-> {}]

(* line 187 *)
Main ==
  /\ main_pc = "start"
  /\ main_pc' = "running"
  /\ log' = Append(log, CallEvent(args.starting_url, args.depth, 0, 0))
  /\ stack' = <<Frame(args.starting_url, args.starting_url, args.depth,
                      args.search_string, Len(log) + 1, 0)>>
  /\ UNCHANGED <<visited_urls, args, web, ex>>

(* Check without the membership test of line 140 *)
Check_NoVisitedTest ==
  /\ main_pc = "running" /\ Top.pc = "check"
  /\ IF Top.depth = 0
     THEN /\ Return
          /\ UNCHANGED <<visited_urls, log>>
     ELSE /\ log' = Append(log, Event("CrawlingStarted", Top.url, "", <<>>))
          /\ visited_urls' = visited_urls \cup {Top.url}
          /\ stack' = SetTop([Top EXCEPT !.pc = "fetch"])
          /\ UNCHANGED main_pc
  /\ UNCHANGED <<args, web, ex>>

(* Check stopping only below depth 0 *)
Check_DepthBelowZero ==
  /\ main_pc = "running" /\ Top.pc = "check"
  /\ IF Top.depth < 0 \/ Top.url \in visited_urls
     THEN /\ Return
          /\ UNCHANGED <<visited_urls, log>>
     ELSE /\ log' = Append(log, Event("CrawlingStarted", Top.url, "", <<>>))
          /\ visited_urls' = visited_urls \cup {Top.url}
          /\ stack' = SetTop([Top EXCEPT !.pc = "fetch"])
          /\ UNCHANGED main_pc
  /\ UNCHANGED <<args, web, ex>>

(* Check without line 143 *)
Check_NoMark ==
  /\ main_pc = "running" /\ Top.pc = "check"
  /\ IF Top.depth = 0 \/ Top.url \in visited_urls
     THEN /\ Return
          /\ UNCHANGED <<visited_urls, log>>
     ELSE /\ log' = Append(log, Event("CrawlingStarted", Top.url, "", <<>>))
          /\ UNCHANGED visited_urls
          /\ stack' = SetTop([Top EXCEPT !.pc = "fetch"])
          /\ UNCHANGED main_pc
  /\ UNCHANGED <<args, web, ex>>

(* lines 140-143 *)
Check ==
  /\ main_pc = "running" /\ Top.pc = "check"
  /\ IF Top.depth = 0 \/ Top.url \in visited_urls
     THEN /\ Return
          /\ UNCHANGED <<visited_urls, log>>
     ELSE /\ log' = Append(log, Event("CrawlingStarted", Top.url, "", <<>>))
          /\ visited_urls' = visited_urls \cup {Top.url}
          /\ stack' = SetTop([Top EXCEPT !.pc = "fetch"])
          /\ UNCHANGED main_pc
  /\ UNCHANGED <<args, web, ex>>

(* lines 145-147, fetch_html returning response.text *)
FetchOk ==
  /\ main_pc = "running" /\ Top.pc = "fetch"
  /\ Top.url \in DOMAIN web
  /\ log' = Append(log, Event("Fetch", Top.url, "", <<>>))
  /\ LET html == web[Top.url]
     IN  IF html = EmptyHtml
         THEN Return
         ELSE /\ stack' = SetTop([Top EXCEPT !.pc = "extract", !.html = html])
              /\ UNCHANGED main_pc
  /\ UNCHANGED <<visited_urls, args, web, ex>>

(* FetchFail with the exception not caught: it unwinds every call *)
FetchFail_Raise ==
  /\ main_pc = "running" /\ Top.pc = "fetch"
  /\ log' = Append(log, Event("Fetch", Top.url, "", <<>>))
  /\ stack' = <<>>
  /\ main_pc' = "raised"
  /\ UNCHANGED <<visited_urls, args, web, ex>>

(* FetchFail without the return of line 147 *)
FetchFail_NoReturn ==
  /\ main_pc = "running" /\ Top.pc = "fetch"
  /\ log' = log \o <<Event("Fetch", Top.url, "", <<>>),
                     Event("FetchFailed", Top.url, "", <<>>)>>
  /\ stack' = SetTop([Top EXCEPT !.pc = "extract", !.html = EmptyHtml])
  /\ UNCHANGED <<visited_urls, args, web, ex, main_pc>>

(* lines 145-147, fetch_html catching requests.RequestException *)
FetchFail ==
  /\ main_pc = "running" /\ Top.pc = "fetch"
  /\ log' = log \o <<Event("Fetch", Top.url, "", <<>>),
                     Event("FetchFailed", Top.url, "", <<>>)>>
  /\ Return
  /\ UNCHANGED <<visited_urls, args, web, ex>>

(* lines 149-165: what crawl() prints about the page of the task on top,  *)
(* the two lists being those find_phone_numbers and find_email_addresses   *)
(* returned.                                                               *)
Reports(phone_numbers, email_addresses) ==
  LET filtered == SelectSeq(phone_numbers,
                    LAMBDA n : Len(StripNonDigits(n)) \in {10, 11})
      string_instances == IF Top.search_string # None
                          THEN find_strings(Top.html, Top.search_string)
                          ELSE <<>>
  IN  (IF args.phone /\ filtered # <<>>
       THEN <<Event("Findings", Top.url, "phone", filtered)>> ELSE <<>>)
      \o (IF args.email /\ email_addresses # <<>>
          THEN <<Event("Findings", Top.url, "email", email_addresses)>>
          ELSE <<>>)
      \o (IF Top.search_string # None /\ string_instances # <<>>
          THEN <<Event("Findings", Top.url, "string", string_instances)>>
          ELSE <<>>)

(* lines 149-167 *)
Extract ==
  /\ main_pc = "running" /\ Top.pc = "extract"
  /\ \E phone_numbers \in (IF args.phone
                             THEN ListsOf(PhoneNumbersOn[Top.html])
                             ELSE {<<>>}) :
     \E email_addresses \in (IF args.email
                                THEN ListsOf(EmailAddressesOn[Top.html])
                                ELSE {<<>>}) :
       log' = log \o Reports(phone_numbers, email_addresses)
  /\ stack' = SetTop([Top EXCEPT
                 !.pc = "loop",
                 !.links = get_links(Top.html, Top.base_url,
                                     args.follow_external)])
  /\ UNCHANGED <<visited_urls, args, web, ex, main_pc>>

(* Sleep with no delay for a link already visited *)
Sleep_SkipVisited ==
  /\ main_pc = "running" /\ Top.pc = "loop"
  /\ \E link \in Top.links :
       /\ stack' = SetTop([Top EXCEPT !.pc = "call", !.link = link,
                                      !.links = Top.links \ {link}])
       /\ log' = IF link \in visited_urls THEN log
                 ELSE Append(log, Event("Delay", link, "", <<>>))
  /\ UNCHANGED <<visited_urls, args, web, ex, main_pc>>

(* lines 168-169: the next link of the set, in any order, and the delay   *)
(* before it; the entry's url is that link.                                *)
Sleep ==
  /\ main_pc = "running" /\ Top.pc = "loop"
  /\ \E link \in Top.links :
       /\ stack' = SetTop([Top EXCEPT !.pc = "call", !.link = link,
                                      !.links = Top.links \ {link}])
       /\ log' = Append(log, Event("Delay", link, "", <<>>))
  /\ UNCHANGED <<visited_urls, args, web, ex, main_pc>>

(* Call passing depth on unchanged *)
Call_SameDepth ==
  /\ main_pc = "running" /\ Top.pc = "call"
  /\ log' = Append(log, CallEvent(Top.link, Top.depth, Len(stack), Top.id))
  /\ stack' = Append(stack, Frame(Top.link, Top.base_url, Top.depth, None,
                                  Len(log) + 1, Top.id))
  /\ UNCHANGED <<visited_urls, args, web, ex, main_pc>>

(* Call that starts the child without waiting for it to return *)
Call_Deferred ==
  /\ main_pc = "running" /\ Top.pc = "call"
  /\ log' = Append(log, CallEvent(Top.link, Top.depth - 1, Len(stack), Top.id))
  /\ stack' = <<Frame(Top.link, Top.base_url, Top.depth - 1, None,
                      Len(log) + 1, Top.id)>>
                \o SetTop([Top EXCEPT !.pc = "loop"])
  /\ UNCHANGED <<visited_urls, args, web, ex, main_pc>>

(* line 170: search_string is not passed on and takes its default *)
Call ==
  /\ main_pc = "running" /\ Top.pc = "call"
  /\ log' = Append(log, CallEvent(Top.link, Top.depth - 1, Len(stack), Top.id))
  /\ stack' = Append(stack, Frame(Top.link, Top.base_url, Top.depth - 1, None,
                                  Len(log) + 1, Top.id))
  /\ UNCHANGED <<visited_urls, args, web, ex, main_pc>>

(* line 168 with no link left: crawl() returns *)
LoopEnd ==
  /\ main_pc = "running" /\ Top.pc = "loop"
  /\ Top.links = {}
  /\ Return
  /\ UNCHANGED <<visited_urls, log, args, web, ex>>

Next == Main \/ Check \/ FetchOk \/ FetchFail \/ Extract \/ Sleep \/ Call \/ LoopEnd

Spec == Init /\ [][Next]_vars

(* Every fetch and every sleep returns in the end, and the interpreter    *)
(* keeps running the one thread there is.                                  *)
FairSpec == Spec /\ WF_vars(Next)

Indices(type) == {i \in 1..Len(log) : log[i].type = type}

(* The calls of crawl() made from the top: by __main__ or, once that call  *)
(* has returned, by the process that holds the module.                     *)
TopCalls == {j \in Indices("Call") : log[j].parent = 0}

(* A top-level call of crawl() that starts with an empty visited set *)
CrawlAgain_FreshSet ==
  /\ main_pc = "done"
  /\ Cardinality(TopCalls) < MaxRuns
  /\ \E url \in Seeds, depth \in 0..MaxDepth :
       /\ log' = Append(log, CallEvent(url, depth, 0, 0))
       /\ stack' = <<Frame(url, url, depth, args.search_string,
                           Len(log) + 1, 0)>>
  /\ main_pc' = "running"
  /\ visited_urls' = {}
  /\ UNCHANGED <<args, web, ex>>

(* crawl() is called from the top once more in the same process: the       *)
(* module, and with it visited_urls of line 32, is still the same one.     *)
CrawlAgain ==
  /\ main_pc = "done"
  /\ Cardinality(TopCalls) < MaxRuns
  /\ \E url \in Seeds, depth \in 0..MaxDepth :
       /\ log' = Append(log, CallEvent(url, depth, 0, 0))
       /\ stack' = <<Frame(url, url, depth, args.search_string,
                           Len(log) + 1, 0)>>
  /\ main_pc' = "running"
  /\ UNCHANGED <<visited_urls, args, web, ex>>

ProcessNext == Next \/ CrawlAgain

ProcessSpec == Init /\ [][ProcessNext]_vars

----------------------------------------------------------------------------
(* The extractors called on their own, on texts made of a few pieces *)

Tokens ==
  { <<"u","s","e","r">>, <<"u","s","e","r","@">>,
    <<"@","e","x","a","m","p","l","e">>, <<".","c","o","m">>,
    <<".","c","|","m">>, <<" ">>, <<"x">>,
    <<"5","5","5","1","2","3","4","5","6","7">>, <<"1","2","3">>,
    <<"5","5","5","-">>, <<"1","2","3","-","4","5","6","7">>,
    <<"+","1"," ">>, <<"(","5","5","5",")"," ">> }

RECURSIVE Concat(_)
Concat(ts) == IF ts = <<>> THEN <<>> ELSE Head(ts) \o Concat(Tail(ts))

Texts == {Concat(ts) : ts \in UNION {[1..n -> Tokens] : n \in 0..MaxTokens}}

PageOf(text) == [text |-> text, hrefs |-> <<>>]

ExInit ==
  /\ visited_urls = {}
  /\ stack = <<>>
  /\ log = <<>>
  /\ web = WebA
  /\ args = [starting_url |-> Home, search_string |-> None, depth |-> 0,
             follow_external |-> FALSE, phone |-> TRUE, email |-> TRUE]
  /\ main_pc = "start"
  /\ \E text \in Texts : ex = [pc |-> "input", input |-> text, output |-> {}]

(* lines 61-84 *)
FindPhoneNumbers ==
  /\ ex.pc = "input"
  /\ ex' = [ex EXCEPT !.pc = "phone",
                      !.output = find_phone_numbers(PageOf(ex.input))]
  /\ UNCHANGED <<visited_urls, stack, log, args, web, main_pc>>

(* lines 86-105 *)
FindEmailAddresses ==
  /\ ex.pc = "input"
  /\ ex' = [ex EXCEPT !.pc = "email",
                      !.output = find_email_addresses(PageOf(ex.input))]
  /\ UNCHANGED <<visited_urls, stack, log, args, web, main_pc>>

ExNext == FindPhoneNumbers \/ FindEmailAddresses

ExtractorSpec == ExInit /\ [][ExNext]_vars

----------------------------------------------------------------------------
(* Properties *)

(* C1: in a crawl run each distinct URL is fetched at most once, however   *)
(* many pages link to it and at whatever remaining depths it is found.     *)
C1_FetchedAtMostOnce ==
  \A i, j \in Indices("Fetch") : log[i].url = log[j].url => i = j

(* A finished run in which crawl() was called twice on one URL, at two     *)
(* remaining depths above 0, and the URL was fetched.                      *)
C1_Witness ==
  /\ main_pc = "done"
  /\ \E i, j \in Indices("Call") : \E k \in Indices("Fetch") :
       /\ log[i].url = log[j].url /\ log[k].url = log[i].url
       /\ log[i].depth > log[j].depth /\ log[j].depth > 0

(* C2: with --depth d no URL is fetched more than d link hops from the     *)
(* seed, and every fetch happens in a task whose depth is d minus the      *)
(* number of hops that led to it.                                          *)
C2_DepthBound ==
  \A i \in Indices("Fetch") :
    /\ log[i].hops <= args.depth
    /\ log[i].depth = args.depth - log[i].hops

(* A finished run that fetched a URL two or more hops from the seed and    *)
(* reached, without fetching it, a URL d hops from the seed.               *)
C2_Witness ==
  /\ main_pc = "done"
  /\ \E i \in Indices("Fetch") : log[i].hops >= 2
  /\ \E i \in Indices("Call") : log[i].hops = args.depth /\ args.depth >= 3

(* The scenario of C3, finished, the seed page having been delivered. *)
C3_Scenario ==
  /\ web = WebA /\ args.starting_url = Home /\ args.depth = 1
  /\ main_pc = "done"
  /\ Indices("Fetch") # {} /\ Indices("FetchFailed") = {}

FetchedBeyondSeed == {i \in Indices("Fetch") : log[i].url # args.starting_url}

ChildCalls == {i \in Indices("Call") : log[i].hops >= 1}

(* C3 as stated: with seed https://a.com/, --depth 1 and a seed page       *)
(* linking to p1 (twice) and p2, exactly two fetches beyond the seed       *)
(* occur, p1 once and p2 once, each in a task with depth 0, and the links  *)
(* of p1 and p2 are not followed.                                          *)
C3_TwoFetchesBeyondSeed ==
  C3_Scenario =>
    /\ {log[i].url : i \in FetchedBeyondSeed} = {P1, P2}
    /\ Cardinality(FetchedBeyondSeed) = 2
    /\ \A i \in FetchedBeyondSeed : log[i].depth = 0
    /\ \A i \in ChildCalls : log[i].hops = 1

(* C3 amended: in that scenario no fetch beyond the seed occurs; crawl()   *)
(* is called once for p1 and once for p2, each with depth 0, after one     *)
(* delay each, and returns at once, so the links of p1 and p2 are not      *)
(* followed.                                                               *)
C3_NoFetchBeyondSeed ==
  C3_Scenario =>
    /\ FetchedBeyondSeed = {}
    /\ {log[i].url : i \in ChildCalls} = {P1, P2}
    /\ Cardinality(ChildCalls) = 2
    /\ \A i \in ChildCalls : log[i].depth = 0 /\ log[i].hops = 1
    /\ Cardinality(Indices("Delay")) = 2
    /\ visited_urls = {Home}

C3_Witness == C3_Scenario /\ Cardinality(ChildCalls) = 2

(* The fetches that delivered a page whose extraction (lines 149-167) is   *)
(* over.                                                                   *)
Extracted ==
  {i \in Indices("Fetch") :
     /\ i + 1 \notin Indices("FetchFailed")
     /\ web[log[i].url] # EmptyHtml
     /\ \A k \in 1..Len(stack) :
          stack[k].id = log[i].task => stack[k].pc # "extract"}

(* C4: when a search_string is given, the pattern is searched on every     *)
(* page fetched successfully, the seed and its descendants alike, and a    *)
(* non-empty result is reported for that page.                             *)
C4_PatternReportedOnEveryPage ==
  \A i \in Extracted :
    LET instances == find_strings(web[log[i].url], args.search_string)
    IN  args.search_string # None /\ instances # <<>> =>
          \E j \in Indices("Findings") :
            /\ log[j].task = log[i].task /\ log[j].url = log[i].url
            /\ log[j].kind = "string" /\ log[j].values = instances

(* C5: the links of a page are resolved against that page's own URL: the   *)
(* URL of every child task is resolve(u, r) for a reference r of the page  *)
(* u whose task called it.                                                 *)
C5_ResolvedAgainstPage ==
  \A i \in ChildCalls :
    LET page == log[log[i].parent].url
    IN  log[i].url \in {urljoin(page, r) : r \in Range(web[page].hrefs)}

(* C6: without --follow-external every URL crawl() is called on, hence     *)
(* every URL fetched, has exactly the seed's host; with --follow-external  *)
(* every resolved reference of a delivered page is scheduled: crawl() has  *)
(* been called on it by the page's task, or the task's loop still holds it.*)
C6_SameHostUnlessExternal ==
  /\ ~args.follow_external =>
       \A i \in Indices("Call") \cup Indices("Fetch") :
         netloc(log[i].url) = netloc(args.starting_url)
  /\ args.follow_external =>
       \A i \in Extracted : \A h \in Range(web[log[i].url].hrefs) :
         LET u == urljoin(args.starting_url, h)
         IN  \/ \E j \in ChildCalls :
                  log[j].parent = log[i].task /\ log[j].url = u
             \/ \E k \in 1..Len(stack) :
                  /\ stack[k].id = log[i].task
                  /\ \/ u \in stack[k].links
                     \/ stack[k].pc = "call" /\ stack[k].link = u

(* A finished run without --follow-external that got a page with a link    *)
(* to another host.                                                        *)
C6_Witness ==
  /\ main_pc = "done" /\ ~args.follow_external
  /\ \E i \in Extracted : \E h \in Range(web[log[i].url].hrefs) :
       netloc(urljoin(args.starting_url, h)) # netloc(args.starting_url)

(* A finished run with --follow-external that fetched from two hosts. *)
C6_WitnessExternal ==
  /\ main_pc = "done" /\ args.follow_external
  /\ \E i, j \in Indices("Fetch") : netloc(log[i].url) # netloc(log[j].url)

(* C7: for every depth and every link graph, whichever fetches fail, the   *)
(* top-level call of crawl() returns in the end.                           *)
C7_Terminates == <>(main_pc = "done")

(* A finished run that met a link back to a page already visited, with     *)
(* depth left, and a failed fetch.                                         *)
C7_Witness ==
  /\ main_pc = "done"
  /\ Indices("FetchFailed") # {}
  /\ \E i \in Indices("Call") : \E j \in Indices("CrawlingStarted") :
       j < i /\ log[j].url = log[i].url /\ log[i].depth > 0

(* C8: a task whose fetch failed stops at once: nothing is found on its    *)
(* URL, it calls no child and sleeps for none, and its URL is not fetched  *)
(* a second time.                                                          *)
C8_FailedTaskStops ==
  \A i \in Indices("FetchFailed") :
    /\ \A k \in 1..Len(stack) : stack[k].id # log[i].task
    /\ \A j \in Indices("Findings") : log[j].url # log[i].url
    /\ \A j \in Indices("Call") : log[j].parent # log[i].task
    /\ \A j \in Indices("Delay") : log[j].task # log[i].task
    /\ \A j \in Indices("Fetch") : log[j].url = log[i].url => j = i - 1

(* A finished run in which the fetch of a page with links and an address   *)
(* failed, --email being set, and crawl() was later called on that URL     *)
(* again with depth left.                                                  *)
C8_Witness ==
  /\ main_pc = "done" /\ args.email
  /\ \E i \in Indices("FetchFailed") : \E j \in Indices("Call") :
       /\ log[i].url \in DOMAIN web
       /\ web[log[i].url].hrefs # <<>>
       /\ find_email_addresses(web[log[i].url]) # {}
       /\ j > i /\ log[j].url = log[i].url /\ log[j].depth > 0

(* The delays and the calls the task of fetch i made for link l *)
DelaysFor(i, l) ==
  {j \in Indices("Delay") : log[j].task = log[i].task /\ log[j].url = l}

CallsFor(i, l) ==
  {j \in ChildCalls : log[j].parent = log[i].task /\ log[j].url = l}

(* C9: a failed fetch never aborts the crawl: when the stack has unwound,  *)
(* the top-level call has returned and every task that got its page has    *)
(* slept for and called crawl() on each of its links exactly once,         *)
(* whichever of its children failed.                                       *)
C9_FailureIsLocal ==
  stack = <<>> /\ main_pc # "start" =>
    /\ main_pc = "done"
    /\ \A i \in Extracted :
         \A l \in get_links(web[log[i].url], args.starting_url,
                            args.follow_external) :
           Cardinality(DelaysFor(i, l)) = 1 /\ Cardinality(CallsFor(i, l)) = 1

(* A finished run in which a child's fetch failed and its parent then      *)
(* called a later sibling, which was fetched.                              *)
C9_Witness ==
  /\ main_pc = "done"
  /\ \E i \in Indices("FetchFailed") : \E j \in ChildCalls :
     \E k \in Indices("Fetch") :
       /\ log[i].hops >= 1
       /\ i < j /\ log[j].parent = log[i].parent
       /\ j < k /\ log[k].task = log[j].task

(* C10: when the fetch of the seed fails, the run is over after one fetch, *)
(* one failure report, no finding, no delay and no other URL visited.      *)
C10_SeedFetchFails ==
  (\E i \in Indices("FetchFailed") : log[i].hops = 0) =>
    /\ main_pc = "done" /\ stack = <<>>
    /\ Cardinality(Indices("Fetch")) = 1
    /\ Cardinality(Indices("FetchFailed")) = 1
    /\ Indices("Findings") = {}
    /\ Indices("Delay") = {}
    /\ Cardinality(Indices("Call")) = 1
    /\ visited_urls = {args.starting_url}

(* The fetch of a seed failed whose page has links and a phone number,     *)
(* --phone and a depth of 2 or more being given.                           *)
C10_Witness ==
  /\ \E i \in Indices("FetchFailed") : log[i].hops = 0
  /\ args.depth >= 2 /\ args.phone
  /\ args.starting_url \in DOMAIN web
  /\ web[args.starting_url].hrefs # <<>>
  /\ find_phone_numbers(web[args.starting_url]) # {}

TenDigits == <<"5","5","5","1","2","3","4","5","6","7">>

(* text has the digits ds in one run and no other digit *)
OnlyDigits(text, ds) ==
  /\ StripNonDigits(text) = ds
  /\ \E i \in 1..(Len(text) - Len(ds) + 1) :
       SubSeq(text, i, i + Len(ds) - 1) = ds

(* C11: every string find_phone_numbers returns has exactly 10 or 11       *)
(* digits; a text whose only digits are 5551234567 yields a candidate      *)
(* with those ten digits, a text whose only digits are 123 yields none.    *)
C11_PhoneDigitCount ==
  ex.pc = "phone" =>
    /\ \A m \in ex.output : Len(StripNonDigits(m)) \in {10, 11}
    /\ OnlyDigits(ex.input, TenDigits) =>
         /\ ex.output # {}
         /\ \A m \in ex.output : StripNonDigits(m) = TenDigits
    /\ OnlyDigits(ex.input, <<"1","2","3">>) => ex.output = {}

(* 5551234567 between two pieces of prose, found. *)
C11_Witness ==
  /\ ex.pc = "phone"
  /\ OnlyDigits(ex.input, TenDigits)
  /\ ex.input[1] \notin Digit /\ ex.input[Len(ex.input)] \notin Digit
  /\ ex.output = {TenDigits}

(* An 11-digit candidate with separators, found. *)
C11_WitnessEleven ==
  /\ ex.pc = "phone"
  /\ \E m \in ex.output : Len(StripNonDigits(m)) = 11 /\ Len(m) > 11

UserAtExampleCom ==
  <<"u","s","e","r","@","e","x","a","m","p","l","e",".","c","o","m">>
UserAtAtExampleCom ==
  <<"u","s","e","r","@","@","e","x","a","m","p","l","e",".","c","o","m">>
UserAtExample == <<"u","s","e","r","@","e","x","a","m","p","l","e">>

(* local-part@domain.tld from end to end: one "@", a local part and a      *)
(* domain that are not empty, and 2 or more letters after the last dot.    *)
WellFormedAddress(m) ==
  LET ats == {i \in 1..Len(m) : m[i] = "@"}
      dots == {i \in 1..Len(m) : m[i] = "."}
  IN  /\ Cardinality(ats) = 1
      /\ \E p \in ats : \E r \in dots :
           /\ \A d \in dots : d <= r
           /\ p > 1 /\ r > p + 1 /\ Len(m) >= r + 2
           /\ \A k \in 1..(p - 1) : m[k] \in LocalChar
           /\ \A k \in (p + 1)..(r - 1) : m[k] \in DomainChar
           /\ \A k \in (r + 1)..Len(m) : m[k] \in Alpha

(* C12: find_email_addresses accepts user@example.com, rejects             *)
(* user@@example.com and user@example, and returns only strings that are   *)
(* local-part@domain.tld from end to end with a final label of 2 or more   *)
(* letters.                                                                *)
C12_EmailShape ==
  ex.pc = "email" =>
    /\ \A m \in ex.output : WellFormedAddress(m)
    /\ ex.input = UserAtExampleCom => ex.output = {UserAtExampleCom}
    /\ ex.input \in {UserAtAtExampleCom, UserAtExample} => ex.output = {}

(* user@example.com, accepted. *)
C12_Witness ==
  /\ ex.pc = "email"
  /\ ex.input = UserAtExampleCom
  /\ ex.output = {UserAtExampleCom}

(* user@@example.com, rejected. *)
C12_WitnessRejected ==
  /\ ex.pc = "email" /\ ex.input = UserAtAtExampleCom /\ ex.output = {}

(* The URLs whose page was delivered, not empty. *)
Delivered == {log[i].url : i \in Extracted}

(* The URLs at most k link hops from the seed along delivered pages, the   *)
(* links being those get_links returns.                                    *)
RECURSIVE ReachableWithin(_)
ReachableWithin(k) ==
  IF k = 0 THEN {args.starting_url}
  ELSE LET R == ReachableWithin(k - 1)
       IN  R \cup UNION {get_links(web[u], args.starting_url,
                                   args.follow_external) :
                           u \in R \cap Delivered}

(* C13: when the crawl has returned, every URL fewer than --depth link     *)
(* hops from the seed along delivered pages has been fetched, whatever     *)
(* the order in which the links of a page were taken.                      *)
C13_ReachableExhausted ==
  main_pc = "done" /\ args.depth >= 1 =>
    \A u \in ReachableWithin(args.depth - 1) :
      \E i \in Indices("Fetch") : log[i].url = u

(* The task of fetch i is still running. *)
Running(i) == \E k \in 1..Len(stack) : stack[k].id = log[i].task

(* C14: a task that got its page sleeps once for each distinct link        *)
(* get_links returned, and for nothing else, each time just before it      *)
(* calls crawl() on that link, whether that call then returns at line 141  *)
(* or not; nothing sleeps before the seed's call, and every fetch of a     *)
(* URL other than the seed comes straight after the delay, the call and    *)
(* the "Crawling" line for it.                                             *)
C14_OneDelayPerChild ==
  /\ \A i \in Extracted :
       \A l \in get_links(web[log[i].url], args.starting_url,
                          args.follow_external) :
         /\ Cardinality(DelaysFor(i, l)) <= 1
         /\ ~Running(i) => Cardinality(DelaysFor(i, l)) = 1
  /\ \A j \in Indices("Delay") :
       \E i \in Extracted :
         /\ log[i].task = log[j].task
         /\ log[j].url \in get_links(web[log[i].url], args.starting_url,
                                     args.follow_external)
  /\ \A j \in ChildCalls :
       /\ log[j - 1].type = "Delay"
       /\ log[j - 1].url = log[j].url
       /\ log[j - 1].task = log[j].parent
  /\ \A j \in Indices("Delay") :
       j > 1 /\ (j = Len(log) \/ log[j + 1].type = "Call")
  /\ \A i \in Indices("Fetch") :
       log[i].hops >= 1 =>
         /\ log[i - 1].type = "CrawlingStarted" /\ log[i - 1].task = log[i].task
         /\ log[i - 2].type = "Call" /\ log[i - 2].task = log[i].task
         /\ log[i - 3].type = "Delay" /\ log[i - 3].url = log[i].url

(* A finished run with a delay before a call that returned because the URL *)
(* was visited, a delay before a call with depth 0, and a fetch of a URL   *)
(* other than the seed.                                                    *)
C14_Witness ==
  /\ main_pc = "done"
  /\ \E j \in ChildCalls : \E c \in Indices("CrawlingStarted") :
       c < j /\ log[c].url = log[j].url /\ log[j].depth > 0
  /\ \E j \in ChildCalls : log[j].depth = 0
  /\ \E i \in Indices("Fetch") : log[i].hops >= 1

(* C15: a URL is in visited_urls before its fetch starts: whenever a task  *)
(* is about to fetch or has fetched a URL, the URL is in the set, and a    *)
(* call on the URL of a task still on the stack (a link of a page to       *)
(* itself or to an ancestor) gets no further than line 140.                *)
C15_VisitedBeforeFetch ==
  /\ \A k \in 1..Len(stack) :
       stack[k].pc # "check" => stack[k].url \in visited_urls
  /\ \A i \in Indices("Fetch") : log[i].url \in visited_urls
  /\ \A k, n \in 1..Len(stack) :
       k < n /\ stack[k].url = stack[n].url => stack[n].pc = "check"

(* A finished run in which a page linked to itself, crawl() was called on  *)
(* it again with depth left, and it was fetched once.                      *)
C15_Witness ==
  /\ main_pc = "done"
  /\ \E j \in ChildCalls :
       /\ log[j].url = log[log[j].parent].url /\ log[j].depth > 0
       /\ Cardinality({i \in Indices("Fetch") : log[i].url = log[j].url}) = 1

(* The calls of crawl() made with depth 0 or on a URL visited before. *)
SkippedCalls ==
  {j \in Indices("Call") :
     \/ log[j].depth = 0
     \/ \E c \in Indices("CrawlingStarted") :
          c < j /\ log[c].url = log[j].url}

(* Nothing in the trace comes from a skipped call or from a child of it. *)
C16_NoTrace ==
  /\ \A j \in SkippedCalls : \A i \in 1..Len(log) :
       i # j => log[i].task # j /\ log[i].parent # j
  /\ args.depth = 0 => Indices("Fetch") = {} /\ visited_urls = {} /\ Len(log) <= 1

(* The step of a task with depth 0 or a visited URL only drops its frame. *)
C16_SkipStep ==
  main_pc = "running" /\ Top.pc = "check"
    /\ (Top.depth = 0 \/ Top.url \in visited_urls) =>
      /\ log' = log
      /\ visited_urls' = visited_urls
      /\ stack' = Popped

(* C16: a task with depth 0 or with a URL already in visited_urls is       *)
(* skipped with no effect: no fetch, no "Crawling" line, no finding, no    *)
(* failure report, no child, visited_urls unchanged; with --depth 0        *)
(* nothing is fetched, not even the seed.                                  *)
C16_SkipHasNoEffect == [](C16_NoTrace) /\ [][C16_SkipStep]_vars

(* A finished run with a call skipped for depth 0 and a call with depth    *)
(* left skipped for a visited URL.                                         *)
C16_Witness ==
  /\ main_pc = "done"
  /\ \E j \in SkippedCalls : log[j].depth = 0 /\ log[j].hops >= 2
  /\ \E j \in SkippedCalls : log[j].depth >= 2

(* A finished run with --depth 0. *)
C16_WitnessDepthZero == main_pc = "done" /\ args.depth = 0 /\ Len(log) = 1

(* Task t is task c or was called, directly or not, by task c. *)
RECURSIVE InSubtree(_, _)
InSubtree(t, c) ==
  IF t = c THEN TRUE
  ELSE IF t = 0 THEN FALSE
  ELSE InSubtree(log[t].parent, c)

(* The call that follows the sleep logged at d: the child the sleep is for. *)
ChildOf(d) == d + 1

(* C17: traversal is sequential and depth-first: only the innermost call   *)
(* of crawl() runs, every other one waits in the call of line 170, so at   *)
(* most one fetch is in flight; and whatever the subtree of a child        *)
(* fetches, reports or sleeps for is logged before its parent's next sleep *)
(* of line 169.                                                            *)
C17_SequentialDepthFirst ==
  /\ \A k \in 1..(Len(stack) - 1) : stack[k].pc = "call"
  /\ Cardinality({k \in 1..Len(stack) : stack[k].pc = "fetch"}) <= 1
  /\ \A k \in 1..(Len(stack) - 1) : stack[k + 1].parent = stack[k].id
  /\ \A d1, d2 \in Indices("Delay") :
       d1 < d2 /\ log[d1].task = log[d2].task =>
         /\ log[ChildOf(d1)].type = "Call"
         /\ log[ChildOf(d1)].parent = log[d1].task
         /\ \A i \in 1..Len(log) :
              InSubtree(log[i].task, ChildOf(d1)) => d1 < i /\ i < d2

(* A finished run where a page slept for two children and the first        *)
(* child's subtree fetched, and slept for a child that fetched as well.    *)
C17_Witness ==
  /\ main_pc = "done"
  /\ \E d1, d2 \in Indices("Delay") :
       /\ d1 < d2 /\ log[d1].task = log[d2].task
       /\ \E i \in Indices("Delay"), f \in Indices("Fetch") :
            /\ log[i].task = ChildOf(d1)
            /\ log[f].task = ChildOf(i)
            /\ i < f /\ f < d2

(* visited_urls is the set of URLs a "Crawling" line was printed for. *)
C18_Exact ==
  visited_urls = {log[i].url : i \in Indices("CrawlingStarted")}

(* C18: visited_urls only grows, and at every point it is exactly the set  *)
(* of URLs whose "Crawling" line has been printed; a URL that was only     *)
(* found as a link and skipped for depth 0 is not in it.                   *)
C18_AppendOnlyExact ==
  [](C18_Exact) /\ [][visited_urls \subseteq visited_urls']_vars

(* A finished run that visited several pages and skipped, for depth 0, a   *)
(* link it never visited.                                                  *)
C18_Witness ==
  /\ main_pc = "done"
  /\ Cardinality(visited_urls) >= 3
  /\ \E j \in Indices("Call") :
       log[j].depth = 0 /\ log[j].url \notin visited_urls

(* A later top-level call on a URL visited before it returns at once, and  *)
(* nothing visited before a top-level call is fetched after it.            *)
C19_NoRefetch ==
  /\ \A j \in TopCalls :
       (\E c \in Indices("CrawlingStarted") :
          c < j /\ log[c].url = log[j].url) =>
         \A i \in 1..Len(log) : i # j => log[i].task # j /\ log[i].parent # j
  /\ \A j \in TopCalls, c \in Indices("CrawlingStarted"),
        f \in Indices("Fetch") :
       c < j /\ j < f => log[f].url # log[c].url

(* C19: visited_urls is shared by all top-level calls of crawl() in one    *)
(* process and is never reset: a second top-level call on a URL an         *)
(* earlier call visited returns at once without a fetch, and no URL an     *)
(* earlier call visited is fetched by a later one.                         *)
C19_SharedAcrossRuns ==
  [](C19_NoRefetch) /\ [][visited_urls \subseteq visited_urls']_vars

(* Two top-level calls have returned; the first visited the URL the second *)
(* was made on.                                                            *)
C19_Witness ==
  /\ main_pc = "done"
  /\ \E j1, j2 \in TopCalls :
       /\ j1 < j2 /\ log[j2].depth > 0
       /\ \E c \in Indices("CrawlingStarted") :
            c < j2 /\ log[c].url = log[j2].url
       /\ Len(log) = j2

(* The second top-level call, on a fresh seed, has fetched pages and has   *)
(* been called on a page the first call visited.                           *)
C19_WitnessLaterRun ==
  /\ main_pc = "done"
  /\ \E j1, j2 \in TopCalls :
       /\ j1 < j2
       /\ \E f \in Indices("Fetch") : j2 < f
       /\ \E k \in Indices("Call"), c \in Indices("CrawlingStarted") :
            c < j2 /\ j2 < k /\ log[k].url = log[c].url /\ log[k].depth > 0

====
